---- MODULE Spec2Model ----
(***************************************************************************)
(* TextImageGen: two command line tools that render every line of a text   *)
(* file to a PNG image.                                                    *)
(*   txt2png  (src/txt2png.cpp)  shells out to ImageMagick, one command    *)
(*            per line;                                                    *)
(*   text2png (src/text2png.cpp) draws with Cairo/FreeType/FontConfig.     *)
(* The module models both main() functions as state machines (Spec), and   *)
(* the canvas computation of render_text_to_png on its own (SpecCanvas).   *)
(***************************************************************************)
EXTENDS Integers, Sequences, FiniteSets, TLC

VARIABLES
    prog,       \* which executable runs: "txt2png" or "text2png"
    argv,       \* the command line after argv[0]
    pc,         \* position in main()
    opt,        \* Options (txt2png) / TextOptions (text2png)
    imExe,      \* txt2png: opt.im_exe, the detected ImageMagick executable
    fonts,      \* txt2png: the font catalog built by collect_fonts
    font,       \* txt2png: the font handed to the command builders
    file,       \* the lines std::getline has returned so far
    lineno,     \* lineno (txt2png) / line_number (text2png)
    made,       \* txt2png: made
    fontEnv,    \* what the font services answer, once they have been asked
    attempts,   \* history: one record per render step that was run
    files,      \* the output files that exist
    out,        \* what was printed to stdout, in order
    exitCode,   \* the process' exit status, -1 while it runs
    failKind,   \* history: the first failure the run met, "none" without one
    cv          \* render_text_to_png's canvas computation (SpecCanvas)

vars == <<prog, argv, pc, opt, imExe, fonts, font, file, lineno, made,
          fontEnv, attempts, files, out, exitCode, failKind, cv>>

mainVars == <<prog, argv, pc, opt, imExe, fonts, font, file, lineno, made,
              fontEnv, attempts, files, out, exitCode, failKind>>

----------------------------------------------------------------------------
(* Bounds of the model *)

\* the longest input file, in lines
MaxLines == 3
\* the longest list of font names a font backend reports
MaxFonts == 2

----------------------------------------------------------------------------
(* Strings.  A TLA+ string is atomic, so the characters of every string    *)
(* the code looks into (numbers, colours, text lines, prefixes) are given  *)
(* by Chars.                                                               *)

Chars(s) ==
    CASE s = ""         -> <<>>
      [] s = "0"        -> <<"0">>
      [] s = "1"        -> <<"1">>
      [] s = "2"        -> <<"2">>
      [] s = "3"        -> <<"3">>
      [] s = "4"        -> <<"4">>
      [] s = "9"        -> <<"9">>
      [] s = "-2"       -> <<"-", "2">>
      [] s = "12"       -> <<"1", "2">>
      [] s = "3x"       -> <<"3", "x">>
      [] s = "abc"      -> <<"a", "b", "c">>
      [] s = "p"        -> <<"p">>
      [] s = "out"      -> <<"o", "u", "t">>
      [] s = ".png"     -> <<".", "p", "n", "g">>
      [] s = "#FF0000"  -> <<"#", "F", "F", "0", "0", "0", "0">>
      [] s = "00FF00"   -> <<"0", "0", "F", "F", "0", "0">>
      [] s = "#12345"   -> <<"#", "1", "2", "3", "4", "5">>
      [] s = "#GG0000"  -> <<"#", "G", "G", "0", "0", "0", "0">>
      [] s = "#FF00ZZ"  -> <<"#", "F", "F", "0", "0", "Z", "Z">>
      [] s = "#FF000080" -> <<"#", "F", "F", "0", "0", "0", "0", "8", "0">>
      [] s = "#FF0000ZZ" -> <<"#", "F", "F", "0", "0", "0", "0", "Z", "Z">>
      [] s = "red"      -> <<"r", "e", "d">>

IsSpace(c) == c \in {" ", "\t", "\r"}
IsDigit(c) == c \in {"0", "1", "2", "3", "4", "5", "6", "7", "8", "9"}
IsHex(c)   == IsDigit(c) \/ c \in {"A", "B", "C", "D", "E", "F",
                                 "a", "b", "c", "d", "e", "f"}

DigitVal(c) ==
    CASE c = "0" -> 0 [] c = "1" -> 1 [] c = "2" -> 2 [] c = "3" -> 3
      [] c = "4" -> 4 [] c = "5" -> 5 [] c = "6" -> 6 [] c = "7" -> 7
      [] c = "8" -> 8 [] c = "9" -> 9

HexVal(c) ==
    CASE IsDigit(c) -> DigitVal(c)
      [] c \in {"A", "a"} -> 10 [] c \in {"B", "b"} -> 11
      [] c \in {"C", "c"} -> 12 [] c \in {"D", "d"} -> 13
      [] c \in {"E", "e"} -> 14 [] c \in {"F", "f"} -> 15

DigitChar(d) ==
    CASE d = 0 -> "0" [] d = 1 -> "1" [] d = 2 -> "2" [] d = 3 -> "3"
      [] d = 4 -> "4" [] d = 5 -> "5" [] d = 6 -> "6" [] d = 7 -> "7"
      [] d = 8 -> "8" [] d = 9 -> "9"

RECURSIVE DropWhileSpace(_)
DropWhileSpace(s) ==
    IF s # <<>> /\ IsSpace(Head(s)) THEN DropWhileSpace(Tail(s)) ELSE s

\* ltrim, rtrim, trim of txt2png
ltrim(s) == DropWhileSpace(s)

RECURSIVE rtrim(_)
rtrim(s) ==
    IF s # <<>> /\ IsSpace(s[Len(s)])
    THEN rtrim(SubSeq(s, 1, Len(s) - 1))
    ELSE s

trim(s) == rtrim(ltrim(s))

\* the value of the longest prefix of s made of decimal digits, after acc
RECURSIVE DigitsValue(_, _)
DigitsValue(s, acc) ==
    IF s # <<>> /\ IsDigit(Head(s))
    THEN DigitsValue(Tail(s), 10 * acc + DigitVal(Head(s)))
    ELSE acc

\* std::stoi: leading white space, an optional sign, then at least one
\* digit; anything after the digits is ignored.  ok = FALSE stands for the
\* std::invalid_argument it throws without a digit.
stoi(s) ==
    LET t    == DropWhileSpace(s)
        neg  == t # <<>> /\ Head(t) = "-"
        sgn  == t # <<>> /\ Head(t) \in {"-", "+"}
        d    == IF sgn THEN Tail(t) ELSE t
    IN  IF d = <<>> \/ ~IsDigit(Head(d))
        THEN [ok |-> FALSE, val |-> 0]
        ELSE [ok |-> TRUE,
              val |-> IF neg THEN 0 - DigitsValue(d, 0) ELSE DigitsValue(d, 0)]

\* the decimal digits of n >= 0, most significant first
RECURSIVE NatDigits(_)
NatDigits(n) ==
    IF n < 10 THEN <<DigitChar(n)>>
    ELSE Append(NatDigits(n \div 10), DigitChar(n % 10))

\* std::to_string(int) and operator<<(int)
to_string(n) == IF n < 0 THEN <<"-">> \o NatDigits(0 - n) ELSE NatDigits(n)

----------------------------------------------------------------------------
(* The environment: what the command line, the input file and the external *)
(* services can hand to the program.                                       *)

\* the text lines std::getline can return (without the newline)
LineSet == { <<>>, <<" ">>, <<"a">>, <<" ", "a">> }

\* the font family names the font backends can report
FontNames == {"Arial", "Bold"}

RECURSIVE SeqsUpTo(_, _)
SeqsUpTo(S, n) ==
    IF n = 0 THEN { <<>> }
    ELSE LET shorter == SeqsUpTo(S, n - 1)
         IN  shorter \cup { Append(q, x) : q \in shorter, x \in S }

\* `magick -list font`: the lines that matter are "  Font: NAME"; the
\* other lines of an entry (family, style, glyphs) do not match the regex.
ImLines == [key : {"Font"}, val : FontNames] \cup [key : {"family"}, val : FontNames]
ImOutputs == SeqsUpTo(ImLines, MaxFonts)

\* `fc-list : family`: one family per line, the text before a ':'
FcOutputs == SeqsUpTo(FontNames, MaxFonts)

\* system()'s return value for a render command
RcSet == {0, 1}

----------------------------------------------------------------------------
(* txt2png: options and parse_args *)

Options ==
    [ input_path |-> "", prefix |-> "", start_index |-> 1, font_name |-> "",
      font_index |-> -1, point_size |-> 64, fill_color |-> "#FFFFFF",
      outline_color |-> "#000000", outline_thickness |-> 4,
      list_fonts |-> FALSE, use_offset_outline |-> FALSE,
      offset_directions |-> 36, dry_run |-> FALSE ]

T_StringFlags == {"--input", "--prefix", "--font", "--color", "--outline-color"}
T_NumberFlags == {"--start-index", "--font-index", "--size", "--outline",
                  "--offset-directions"}

T_SetString(o, a, v) ==
    CASE a = "--input"         -> [o EXCEPT !.input_path = v]
      [] a = "--prefix"        -> [o EXCEPT !.prefix = v]
      [] a = "--font"          -> [o EXCEPT !.font_name = v]
      [] a = "--color"         -> [o EXCEPT !.fill_color = v]
      [] a = "--outline-color" -> [o EXCEPT !.outline_color = v]

T_SetNumber(o, a, n) ==
    CASE a = "--start-index"       -> [o EXCEPT !.start_index = n]
      [] a = "--font-index"        -> [o EXCEPT !.font_index = n]
      [] a = "--size"              -> [o EXCEPT !.point_size = n]
      [] a = "--outline"           -> [o EXCEPT !.outline_thickness = n]
      [] a = "--offset-directions" -> [o EXCEPT !.offset_directions = n]

\* The loop of parse_args from argv[i] on, then its final check.  status is
\* "ok" (returns true), "fail" (returns false), "help" (std::exit(0)) or
\* "crash" (std::stoi throws and nothing catches it).
RECURSIVE parse_args_from(_, _, _)
parse_args_from(args, i, o) ==
    IF i > Len(args)
    THEN IF o.input_path = "" /\ ~o.list_fonts
         THEN [status |-> "fail", opt |-> o]
         ELSE [status |-> "ok", opt |-> o]
    ELSE
    LET a        == args[i]
        need_val == i + 1 <= Len(args)
    IN  CASE a \in {"--help", "-h"} -> [status |-> "help", opt |-> o]
          [] a \in T_StringFlags ->
                IF ~need_val THEN [status |-> "fail", opt |-> o]
                ELSE parse_args_from(args, i + 2, T_SetString(o, a, args[i + 1]))
          [] a \in T_NumberFlags ->
                IF ~need_val THEN [status |-> "fail", opt |-> o]
                ELSE LET n == stoi(Chars(args[i + 1]))
                     IN  IF ~n.ok THEN [status |-> "crash", opt |-> o]
                         ELSE parse_args_from(args, i + 2, T_SetNumber(o, a, n.val))
          [] a = "--list-fonts" ->
                parse_args_from(args, i + 1, [o EXCEPT !.list_fonts = TRUE])
          [] a = "--outline-method" ->
                IF ~need_val THEN [status |-> "fail", opt |-> o]
                ELSE CASE args[i + 1] = "stroke" ->
                            parse_args_from(args, i + 2,
                                [o EXCEPT !.use_offset_outline = FALSE])
                       [] args[i + 1] = "offset" ->
                            parse_args_from(args, i + 2,
                                [o EXCEPT !.use_offset_outline = TRUE])
                       [] OTHER -> [status |-> "fail", opt |-> o]
          [] a = "--dry-run" ->
                parse_args_from(args, i + 1, [o EXCEPT !.dry_run = TRUE])
          [] OTHER -> [status |-> "fail", opt |-> o]

parse_args(args) == parse_args_from(args, 1, Options)

----------------------------------------------------------------------------
(* txt2png: the font catalog *)

RECURSIVE Dedup(_, _)
\* "dedup while preserving order": q appended to acc, first occurrences only
Dedup(q, acc) ==
    IF q = <<>> THEN acc
    ELSE IF \E j \in 1..Len(acc) : acc[j] = Head(q)
         THEN Dedup(Tail(q), acc)
         ELSE Dedup(Tail(q), Append(acc, Head(q)))

\* the names of the lines the regex ^\s*Font:\s*(.+)\s*$ matches
RECURSIVE ImFontNames(_)
ImFontNames(lines) ==
    IF lines = <<>> THEN <<>>
    ELSE IF Head(lines).key = "Font"
         THEN <<Head(lines).val>> \o ImFontNames(Tail(lines))
         ELSE ImFontNames(Tail(lines))

\* collect_fonts: ImageMagick's list as it comes; only when that is empty,
\* fontconfig's list, deduplicated
collect_fonts(imOut, fcOut) ==
    LET im == ImFontNames(imOut)
    IN  IF im # <<>> THEN im ELSE Dedup(fcOut, <<>>)

----------------------------------------------------------------------------
(* txt2png: the command builders *)

RECURSIVE escape_for_label(_)
escape_for_label(s) ==
    IF s = <<>> THEN <<>>
    ELSE (IF Head(s) \in {"\\", "\""} THEN <<"\\", Head(s)>> ELSE <<Head(s)>>)
         \o escape_for_label(Tail(s))

\* One image operand of a command: a text label of one colour.
Label(colour, role, dx, dy) ==
    [colour |-> colour, role |-> role, dx |-> dx, dy |-> dy]

build_cmd_stroke(im_exe, text, fnt, point_size, fill_color, outline_color, outline_thickness, out_path) ==
    [ exe |-> im_exe, method |-> "stroke", font |-> fnt,
      pointsize |-> point_size, fill |-> fill_color,
      stroke |-> outline_color, strokewidth |-> outline_thickness,
      label |-> escape_for_label(text), layers |-> <<>>,
      out_path |-> out_path ]

\* round(r * cos(2 pi k / n)) and round(r * sin(2 pi k / n)) for the
\* direction counts whose angles are multiples of a quarter turn
OffsetDx(r, k, n) ==
    CASE n = 1 -> r
      [] n = 2 -> IF k = 0 THEN r ELSE 0 - r
      [] n = 4 -> CASE k = 0 -> r [] k = 1 -> 0 [] k = 2 -> 0 - r [] k = 3 -> 0

OffsetDy(r, k, n) ==
    CASE n = 1 -> 0
      [] n = 2 -> 0
      [] n = 4 -> CASE k = 0 -> 0 [] k = 1 -> r [] k = 2 -> 0 [] k = 3 -> 0 - r

\* build_cmd_offset with the fill-coloured label composited first
build_cmd_offset_FillFirst(im_exe, text, fnt, point_size, fill_color, outline_color, outline_thickness, directions, out_path) ==
    LET r      == outline_thickness
        n      == IF directions > 0 THEN directions ELSE 0
        copies == [k \in 1..n |->
                     Label(outline_color, "shifted",
                           OffsetDx(r, k - 1, directions),
                           OffsetDy(r, k - 1, directions))]
    IN  [ exe |-> im_exe, method |-> "offset", font |-> fnt,
          pointsize |-> point_size, fill |-> fill_color,
          stroke |-> outline_color, strokewidth |-> 0,
          label |-> escape_for_label(text),
          layers |-> <<Label(fill_color, "fill", 0, 0),
                       Label(outline_color, "base", 0, 0)>> \o copies,
          out_path |-> out_path ]

\* build_cmd_offset: the images of the command in compositing order: the
\* outline-coloured label (mpr:outline), one shifted copy of it for each
\* k in 0..directions-1, then the fill-coloured label.
build_cmd_offset(im_exe, text, fnt, point_size, fill_color, outline_color, outline_thickness, directions, out_path) ==
    LET r      == outline_thickness
        n      == IF directions > 0 THEN directions ELSE 0
        copies == [k \in 1..n |->
                     Label(outline_color, "shifted",
                           OffsetDx(r, k - 1, directions),
                           OffsetDy(r, k - 1, directions))]
    IN  [ exe |-> im_exe, method |-> "offset", font |-> fnt,
          pointsize |-> point_size, fill |-> fill_color,
          stroke |-> outline_color, strokewidth |-> 0,
          label |-> escape_for_label(text),
          layers |-> <<Label(outline_color, "base", 0, 0)>> \o copies
                     \o <<Label(fill_color, "fill", 0, 0)>>,
          out_path |-> out_path ]

----------------------------------------------------------------------------
(* Both programs: leaving main() *)

\* return code; from main(), or the process ending another way
Exit(code, kind) ==
    /\ pc' = "done"
    /\ exitCode' = code
    /\ failKind' = IF failKind = "none" THEN kind ELSE failKind

\* the status a shell reports for a process std::terminate() aborted
\* (128 + SIGABRT); neither program names it
AbortStatus == 134

\* the values of the return statements of the two main() functions that
\* report a failure, by the failure they report
ReturnCodes(p) ==
    IF p = "txt2png"
    THEN [usage |-> 2, backend |-> 3, nofonts |-> 4, fontindex |-> 5,
          input |-> 6, render |-> 7]
    ELSE [usage |-> 1, input |-> 1]

Fail(kind) == Exit(ReturnCodes(prog)[kind], kind)

\* "<prefix><number>.png"
OutputName(prefix, n) == Chars(prefix) \o to_string(n) \o Chars(".png")

NoCanvas == [phase |-> "off"]

----------------------------------------------------------------------------
(* txt2png: main *)

T_InputParts == { <<>>, <<"--input", "in.txt">> }

T_Extras ==
    { <<>>, <<"--dry-run">>, <<"--list-fonts">>, <<"--help">>, <<"--bogus">>,
      <<"--prefix">>, <<"--prefix", "p">>,
      <<"--start-index", "0">>, <<"--start-index", "-2">>,
      <<"--start-index", "9">>,
      <<"--font", "Arial">>,
      <<"--font-index", "-2">>, <<"--font-index", "0">>,
      <<"--font-index", "1">>, <<"--font-index", "2">>,
      <<"--font-index", "3">>, <<"--font-index", "abc">>,
      <<"--size", "3x">>,
      <<"--color", "#FF0000">>, <<"--color", "#12345">>, <<"--color", "red">>,
      <<"--outline-color", "#GG0000">>,
      <<"--outline-method", "stroke">>, <<"--outline-method", "wavy">>,
      <<"--outline-method", "offset", "--offset-directions", "4", "--outline", "2">>,
      <<"--outline-method", "offset", "--offset-directions", "0", "--outline", "2">>,
      <<"--outline-method", "offset", "--offset-directions", "2", "--outline", "0">>,
      <<"--outline-method", "offset", "--offset-directions", "2", "--outline", "-2">>,
      <<"--dry-run", "--outline-method", "offset", "--offset-directions", "1">> }

T_ArgvSet == { a \o b : a \in T_InputParts, b \in T_Extras }

\* ++lineno
T_NextLineNoStuck(n) == n
T_NextLineNo(n) == n + 1

\* if (t.empty()) { ++lineno; continue; }
T_SkipBlankKept(n) == n
T_SkipBlank(n) == n + 1

\* if (opt.dry_run)
T_IsDryRunIgnored(o) == FALSE
T_IsDryRun(o) == o.dry_run

\* if (rc != 0)
T_RenderFailedNever(rc) == FALSE
T_RenderFailed(rc) == rc # 0

\* if (!parse_args(argc, argv, opt)) return 2;
T_ParseArgs ==
    /\ prog = "txt2png" /\ pc = "start"
    /\ LET r == parse_args(argv)
       IN  CASE r.status = "ok" ->
                    /\ opt' = r.opt
                    /\ pc' = "detect"
                    /\ UNCHANGED <<exitCode, failKind, out>>
             [] r.status = "help" ->
                    /\ out' = Append(out, [kind |-> "help"])
                    /\ Exit(0, "none")
                    /\ UNCHANGED opt
             [] r.status = "fail" ->
                    /\ Fail("usage")
                    /\ UNCHANGED <<opt, out>>
             [] r.status = "crash" ->
                    /\ Exit(AbortStatus, "crash")
                    /\ UNCHANGED <<opt, out>>
    /\ UNCHANGED <<prog, argv, imExe, fonts, font, file, lineno, made, fontEnv,
                   attempts, files, cv>>

\* opt.im_exe = detect_imagemagick(); if (opt.im_exe.empty()) return 3;
T_Detect ==
    /\ prog = "txt2png" /\ pc = "detect"
    /\ \E exe \in {"magick", "convert", ""} :
          /\ imExe' = exe
          /\ IF exe = ""
             THEN Fail("backend")
             ELSE pc' = "fonts" /\ UNCHANGED <<exitCode, failKind>>
    /\ UNCHANGED <<prog, argv, opt, fonts, font, file, lineno, made, fontEnv,
                   attempts, files, out, cv>>

\* collect_fonts, the --list-fonts branch, and the font picked by index
T_Fonts ==
    /\ prog = "txt2png" /\ pc = "fonts"
    /\ \E imOut \in ImOutputs, fcOut \in FcOutputs :
          LET first  == collect_fonts(imOut, fcOut)
              \* if (fonts.empty()) fonts = collect_fonts(opt.im_exe);
              again  == IF opt.font_index > 0 /\ first = <<>>
                        THEN collect_fonts(imOut, fcOut) ELSE first
          IN  IF opt.list_fonts
              THEN /\ fonts' = first
                   /\ IF first = <<>>
                      THEN Fail("nofonts") /\ UNCHANGED out
                      ELSE /\ out' = out \o [i \in 1..Len(first) |->
                                        [kind |-> "font", index |-> i,
                                         name |-> first[i]]]
                           /\ Exit(0, "none")
                   /\ UNCHANGED font
              ELSE IF opt.font_index > 0
              THEN /\ fonts' = again
                   /\ IF opt.font_index < 1 \/ opt.font_index > Len(again)
                      THEN Fail("fontindex") /\ UNCHANGED font
                      ELSE /\ font' = again[opt.font_index]
                           /\ pc' = "open"
                           /\ UNCHANGED <<exitCode, failKind>>
                   /\ UNCHANGED out
              ELSE /\ fonts' = first
                   /\ font' = opt.font_name
                   /\ pc' = "open"
                   /\ UNCHANGED <<exitCode, failKind, out>>
    /\ UNCHANGED <<prog, argv, opt, imExe, file, lineno, made, fontEnv,
                   attempts, files, cv>>

\* std::ifstream in(opt.input_path); if (!in) return 6;
T_Open ==
    /\ prog = "txt2png" /\ pc = "open"
    /\ \E readable \in BOOLEAN :
          IF readable
          THEN /\ pc' = "loop"
               /\ lineno' = opt.start_index
               /\ made' = 0
               /\ UNCHANGED <<exitCode, failKind>>
          ELSE /\ Fail("input")
               /\ UNCHANGED <<lineno, made>>
    /\ UNCHANGED <<prog, argv, opt, imExe, fonts, font, file, fontEnv,
                   attempts, files, out, cv>>

\* whether ImageMagick knows the font the commands name
T_FontAnswers ==
    IF fontEnv # "unknown" THEN {fontEnv}
    ELSE IF font # "" /\ ~(opt.font_index > 0) THEN {"ok", "nofont"}
    ELSE {"ok"}

\* one turn of while (std::getline(in, line))
T_Line ==
    /\ prog = "txt2png" /\ pc = "loop"
    /\ Len(file) < MaxLines
    /\ \E line \in LineSet :
          LET t        == trim(line)
              out_path == OutputName(opt.prefix, lineno)
              cmd      == IF ~opt.use_offset_outline
                          THEN build_cmd_stroke(imExe, t, font, opt.point_size,
                                   opt.fill_color, opt.outline_color,
                                   opt.outline_thickness, out_path)
                          ELSE build_cmd_offset(imExe, t, font, opt.point_size,
                                   opt.fill_color, opt.outline_color,
                                   opt.outline_thickness,
                                   opt.offset_directions, out_path)
          IN  /\ file' = Append(file, line)
              /\ IF t = <<>>
                 THEN /\ lineno' = T_SkipBlank(lineno)
                      /\ UNCHANGED <<pc, made, fontEnv, attempts, files, out,
                                     exitCode, failKind>>
                 ELSE IF T_IsDryRun(opt)
                 THEN /\ out' = Append(out, [kind |-> "cmd", cmd |-> cmd])
                      /\ lineno' = T_NextLineNo(lineno)
                      /\ UNCHANGED <<pc, made, fontEnv, attempts, files,
                                     exitCode, failKind>>
                 ELSE \E rc \in RcSet, fe \in T_FontAnswers :
                      /\ fontEnv' = fe
                      /\ attempts' = Append(attempts,
                            [pos |-> Len(file) + 1, text |-> t,
                             number |-> lineno, cmd |-> cmd,
                             name |-> out_path, ok |-> rc = 0,
                             backendOK |-> imExe # "", fontOK |-> fe = "ok"])
                      /\ IF T_RenderFailed(rc)
                         THEN /\ Fail("render")
                              /\ UNCHANGED <<lineno, made, files, out>>
                         ELSE /\ made' = made + 1
                              /\ files' = files \cup {out_path}
                              /\ lineno' = T_NextLineNo(lineno)
                              /\ UNCHANGED <<pc, out, exitCode, failKind>>
    /\ UNCHANGED <<prog, argv, opt, imExe, fonts, font, cv>>

\* std::getline meets the end of the file: "Wrote N PNG files.", return 0
T_Eof ==
    /\ prog = "txt2png" /\ pc = "loop"
    /\ Exit(0, "none")
    /\ UNCHANGED <<prog, argv, opt, imExe, fonts, font, file, lineno, made,
                   fontEnv, attempts, files, out, cv>>

----------------------------------------------------------------------------
(* text2png: options *)

\* Colour channels are kept as the bytes r, g, b (the code stores r / 255.0).
TextOptions ==
    [ font_name |-> "DejaVu Sans", font_size |-> 48,
      text |-> <<255, 255, 255>>, outline |-> <<0, 0, 0>>,
      bg |-> <<0, 0, 0, 0>>, outline_width |-> 2, padding |-> 20,
      output_prefix |-> "output", verbose |-> FALSE ]

\* what reading an unsigned int that was never written can give
UninitValues == {0, 77, 4096}

\* sscanf(s, "%02x%02x..."), n conversions: the values it stored, in order;
\* fewer than n when the input stops matching.  Each %02x skips white
\* space and takes one or two hex digits.
RECURSIVE sscanf_hex(_, _)
sscanf_hex(s, n) ==
    LET t == DropWhileSpace(s)
    IN  IF n = 0 \/ t = <<>> \/ ~IsHex(Head(t)) THEN <<>>
        ELSE IF Len(t) >= 2 /\ IsHex(t[2])
             THEN <<16 * HexVal(t[1]) + HexVal(t[2])>>
                  \o sscanf_hex(SubSeq(t, 3, Len(t)), n - 1)
             ELSE <<HexVal(t[1])>> \o sscanf_hex(Tail(t), n - 1)

\* if (color[0] == '#') color = color.substr(1);
StripHash(c) == IF c # <<>> /\ Head(c) = "#" THEN Tail(c) ELSE c

\* --text-color and --outline-color: the new value of the three channels,
\* old when the value is not taken (a warning is printed, nothing else)
X_Rgb(value, old) ==
    LET color == StripHash(Chars(value))
        got   == sscanf_hex(color, 3)
    IN  IF Len(color) = 6 /\ Len(got) = 3 THEN got ELSE old

\* --bg-color: sscanf's result is not looked at, so a channel it did not
\* store is read uninitialized (u); a defaults to 255
X_Rgba(value, old, u) ==
    LET color == StripHash(Chars(value))
        got   == sscanf_hex(color, IF Len(color) = 8 THEN 4 ELSE 3)
        ch(i) == IF i <= Len(got) THEN got[i] ELSE u
    IN  IF Len(color) \in {6, 8}
        THEN <<ch(1), ch(2), ch(3), IF Len(got) >= 4 THEN got[4] ELSE 255>>
        ELSE old

X_ValueFlags == {"--font-name", "--font-size", "--text-color",
                 "--outline-color", "--bg-color", "--outline-width",
                 "--padding"}

\* The option loop of main from argv[i] on.  An option without its value,
\* and an unknown option, match no branch and are passed over.
RECURSIVE X_ParseOptions(_, _, _, _)
X_ParseOptions(args, i, o, u) ==
    IF i > Len(args) THEN [status |-> "ok", opt |-> o]
    ELSE
    LET a == args[i]
        v == args[i + 1]
        n == stoi(Chars(v))
    IN  IF a \in X_ValueFlags /\ i + 1 <= Len(args)
        THEN CASE a = "--font-name" ->
                    X_ParseOptions(args, i + 2, [o EXCEPT !.font_name = v], u)
               [] a = "--text-color" ->
                    X_ParseOptions(args, i + 2,
                        [o EXCEPT !.text = X_Rgb(v, o.text)], u)
               [] a = "--outline-color" ->
                    X_ParseOptions(args, i + 2,
                        [o EXCEPT !.outline = X_Rgb(v, o.outline)], u)
               [] a = "--bg-color" ->
                    X_ParseOptions(args, i + 2,
                        [o EXCEPT !.bg = X_Rgba(v, o.bg, u)], u)
               [] a \in {"--font-size", "--outline-width", "--padding"} ->
                    IF ~n.ok THEN [status |-> "crash", opt |-> o]
                    ELSE X_ParseOptions(args, i + 2,
                           CASE a = "--font-size" -> [o EXCEPT !.font_size = n.val]
                             [] a = "--outline-width" -> [o EXCEPT !.outline_width = n.val]
                             [] a = "--padding" -> [o EXCEPT !.padding = n.val],
                           u)
        ELSE IF a \in {"-v", "--verbose"}
        THEN X_ParseOptions(args, i + 1, [o EXCEPT !.verbose = TRUE], u)
        ELSE X_ParseOptions(args, i + 1, o, u)

\* list_fonts: the family names FontConfig reports, in a std::set: each
\* once, in the order of std::string's operator<
FontRank(name) == CASE name = "Arial" -> 1 [] name = "Bold" -> 2

list_fonts(fams) ==
    LET S == { fams[i] : i \in 1..Len(fams) }
    IN  [i \in 1..Cardinality(S) |->
            CHOOSE x \in S :
                Cardinality({ y \in S : FontRank(y) < FontRank(x) }) = i - 1]

\* render_text_to_png: where it returns.  ft is what FreeType and
\* FontConfig answer, written whether cairo_surface_write_to_png succeeds.
render_text_to_png(ft, written) ==
    IF ft # "ok" THEN ft
    ELSE IF written THEN "ok" ELSE "writefail"

RenderFailKind(result) ==
    CASE result = "ok"        -> "none"
      [] result = "noft"      -> "backend"
      [] result = "nofont"    -> "font"
      [] result = "noface"    -> "font"
      [] result = "writefail" -> "render"

----------------------------------------------------------------------------
(* text2png: main *)

X_Extras ==
    { <<>>, <<"-v">>, <<"--bogus">>, <<"--font-name">>,
      <<"--font-name", "Arial">>,
      <<"--font-size", "12">>, <<"--font-size", "abc">>,
      <<"--text-color", "#FF0000">>, <<"--text-color", "00FF00">>,
      <<"--text-color", "#12345">>, <<"--text-color", "#GG0000">>,
      <<"--outline-color", "#FF00ZZ">>, <<"--outline-color", "red">>,
      <<"--bg-color", "#FF000080">>, <<"--bg-color", "#FF0000ZZ">>,
      <<"--bg-color", "#12345">>, <<"--bg-color", "#FF0000">>,
      <<"--outline-width", "0">>, <<"--padding", "0">> }

X_ArgvSet ==
    { <<>>, <<"--list-fonts">>, <<"in.txt">> }
        \cup { <<"in.txt", "out">> \o b : b \in X_Extras }

\* line_number++
X_NextLineNoStuck(n) == n
X_NextLineNo(n) == n + 1

\* main up to the end of the option loop
X_Start ==
    /\ prog = "text2png" /\ pc = "start"
    /\ IF Len(argv) + 1 < 2
       THEN Fail("usage") /\ UNCHANGED <<opt, out>>
       ELSE IF argv[1] = "--list-fonts"
       THEN /\ \E fams \in FcOutputs :
                 LET names == list_fonts(fams)
                 IN  out' = out \o [i \in 1..Len(names) |->
                                [kind |-> "font", index |-> i, name |-> names[i]]]
            /\ Exit(0, "none")
            /\ UNCHANGED opt
       ELSE IF Len(argv) + 1 < 3
       THEN Fail("usage") /\ UNCHANGED <<opt, out>>
       ELSE \E u \in UninitValues :
            LET r == X_ParseOptions(argv, 3,
                        [TextOptions EXCEPT !.output_prefix = argv[2]], u)
            IN  IF r.status = "crash"
                THEN Exit(AbortStatus, "crash") /\ UNCHANGED <<opt, out>>
                ELSE /\ opt' = r.opt
                     /\ pc' = "open"
                     /\ UNCHANGED <<exitCode, failKind, out>>
    /\ UNCHANGED <<prog, argv, imExe, fonts, font, file, lineno, made, fontEnv,
                   attempts, files, cv>>

\* std::ifstream file(input_file); if (!file.is_open()) return 1;
X_Open ==
    /\ prog = "text2png" /\ pc = "open"
    /\ \E readable \in BOOLEAN :
          IF readable
          THEN /\ pc' = "loop"
               /\ lineno' = 1
               /\ UNCHANGED <<exitCode, failKind>>
          ELSE /\ Fail("input")
               /\ UNCHANGED lineno
    /\ UNCHANGED <<prog, argv, opt, imExe, fonts, font, file, made, fontEnv,
                   attempts, files, out, cv>>

X_FontAnswers ==
    IF fontEnv # "unknown" THEN {fontEnv}
    ELSE {"noft", "nofont", "noface", "ok"}

\* one turn of while (std::getline(file, line))
X_Line ==
    /\ prog = "text2png" /\ pc = "loop"
    /\ Len(file) < MaxLines
    /\ \E line \in LineSet :
          /\ file' = Append(file, line)
          /\ IF line # <<>>
             THEN \E ft \in X_FontAnswers, written \in BOOLEAN :
                  LET output_filename == OutputName(opt.output_prefix, lineno)
                      result == render_text_to_png(ft, written)
                  IN  /\ fontEnv' = ft
                      /\ attempts' = Append(attempts,
                            [pos |-> Len(file) + 1, text |-> line,
                             number |-> lineno,
                             name |-> output_filename, ok |-> result = "ok",
                             backendOK |-> ft # "noft", fontOK |-> ft = "ok"])
                      /\ files' = IF result = "ok"
                                  THEN files \cup {output_filename} ELSE files
                      /\ out' = Append(out, [kind |-> "created",
                                             name |-> output_filename])
                      /\ failKind' = IF failKind = "none"
                                     THEN RenderFailKind(result) ELSE failKind
                      /\ lineno' = X_NextLineNo(lineno)
             ELSE UNCHANGED <<fontEnv, attempts, files, out, failKind, lineno>>
    /\ UNCHANGED <<prog, argv, pc, opt, imExe, fonts, font, made, exitCode, cv>>

\* the end of the file: file.close(); return 0;
X_Eof ==
    /\ prog = "text2png" /\ pc = "loop"
    /\ Exit(0, "none")
    /\ UNCHANGED <<prog, argv, opt, imExe, fonts, font, file, lineno, made,
                   fontEnv, attempts, files, out, cv>>

----------------------------------------------------------------------------
(* The two programs *)

Init ==
    /\ prog \in {"txt2png", "text2png"}
    /\ argv \in (IF prog = "txt2png" THEN T_ArgvSet ELSE X_ArgvSet)
    /\ pc = "start"
    /\ opt = IF prog = "txt2png" THEN Options ELSE TextOptions
    /\ imExe = ""
    /\ fonts = <<>>
    /\ font = ""
    /\ file = <<>>
    /\ lineno = 0
    /\ made = 0
    /\ fontEnv = "unknown"
    /\ attempts = <<>>
    /\ files = {}
    /\ out = <<>>
    /\ exitCode = -1
    /\ failKind = "none"
    /\ cv = NoCanvas

Next ==
    \/ T_ParseArgs \/ T_Detect \/ T_Fonts \/ T_Open \/ T_Line \/ T_Eof
    \/ X_Start \/ X_Open \/ X_Line \/ X_Eof

Spec == Init /\ [][Next]_vars

----------------------------------------------------------------------------
(* render_text_to_png: the canvas.  Lengths that the code holds in a       *)
(* double (the text extents, full_width, x_pos, ...) are counted in tenths *)
(* of a pixel, so that 1.5 and 1.2 times the font size are exact; the      *)
(* font size, the padding, the outline width and the surface's size are    *)
(* whole pixels.                                                           *)

\* the largest font size, padding and outline width tried, in pixels
MaxFontSize == 3
MaxPadding == 1
MaxOutline == 2
\* the text extents tried: ink sizes 0, 0.3, ... and bearings -0.8, -0.4, ...
MaxInk == 4
MaxBearing == 3

FontSizes == 1..MaxFontSize
Paddings == 0..MaxPadding
OutlineWidths == 0..MaxOutline
InkSizes == { 3 * k : k \in 0..MaxInk }
Bearings == { 4 * k - 8 : k \in 0..MaxBearing }

Abs(x) == IF x < 0 THEN 0 - x ELSE x

\* static_cast<int>(ceil(x)) of x tenths of a pixel, in pixels
CeilPxTruncated(x) == IF x >= 0 THEN x \div 10 ELSE 0 - ((0 - x) \div 10)
CeilPx(x) == (x + 9) \div 10

\* full_width after "Ensure minimum dimensions"
FullWidth(e, o) ==
    LET full_width == Abs(e.x_bearing) + e.width
                      + 10 * (o.padding * 2) + 10 * (o.outline_width * 2)
    IN  IF full_width < 15 * o.font_size THEN 15 * o.font_size ELSE full_width

\* full_height after "Ensure minimum dimensions"
FullHeight(e, o) ==
    LET full_height == Abs(e.y_bearing) + e.height
                       + 10 * (o.padding * 2) + 10 * (o.outline_width * 2)
    IN  IF full_height < 10 * o.font_size THEN 12 * o.font_size ELSE full_height

\* the surface that is created and the point the text path starts at
Canvas(e, o) ==
    [ width  |-> CeilPx(FullWidth(e, o)),
      height |-> CeilPx(FullHeight(e, o)),
      x_pos  |-> 10 * (o.padding + o.outline_width * 2) - e.x_bearing,
      y_pos  |-> 10 * (o.padding + o.outline_width * 2) - e.y_bearing
                 + 10 * o.font_size ]

InitCanvas ==
    /\ prog = "text2png"
    /\ argv = <<"in.txt", "out">>
    /\ pc = "loop"
    /\ opt = TextOptions
    /\ imExe = ""
    /\ fonts = <<>>
    /\ font = ""
    /\ file = <<>>
    /\ lineno = 1
    /\ made = 0
    /\ fontEnv = "ok"
    /\ attempts = <<>>
    /\ files = {}
    /\ out = <<>>
    /\ exitCode = -1
    /\ failKind = "none"
    /\ \E fs \in FontSizes, pad \in Paddings, ow \in OutlineWidths :
          cv = [phase |-> "start",
                o |-> [font_size |-> fs, padding |-> pad, outline_width |-> ow]]

\* cairo_text_extents(ft_cr, text.c_str(), &extents)
C_Measure ==
    /\ cv.phase = "start"
    /\ \E bx \in Bearings, by \in Bearings, w \in InkSizes, h \in InkSizes :
          cv' = [phase |-> "measured", o |-> cv.o,
                 e |-> [x_bearing |-> bx, y_bearing |-> by,
                        width |-> w, height |-> h]]
    /\ UNCHANGED mainVars

\* from "Determine the full dimensions needed" to cairo_move_to
C_Size ==
    /\ cv.phase = "measured"
    /\ cv' = [phase |-> "sized", o |-> cv.o, e |-> cv.e,
              canvas |-> Canvas(cv.e, cv.o)]
    /\ UNCHANGED mainVars

NextCanvas == C_Measure \/ C_Size

SpecCanvas == InitCanvas /\ [][NextCanvas]_vars

Sized == cv.phase = "sized"

\* what the claims about the canvas are stated in, all in tenths of a pixel
NeededWidth  == Abs(cv.e.x_bearing) + cv.e.width
                + 20 * cv.o.padding + 20 * cv.o.outline_width
NeededHeight == Abs(cv.e.y_bearing) + cv.e.height
                + 20 * cv.o.padding + 20 * cv.o.outline_width

(* C5: for every point size >= 1, outline thickness >= 0, padding >= 0 and
   all text metrics, the allocated canvas is a whole number of pixels and
   at least |bearing| + ink size + 2*padding + 2*outline thickness in each
   direction: the dimensions are rounded up, never down. *)
C5_CanvasCoversNeeded ==
    (Sized /\ cv.o.font_size >= 1 /\ cv.o.outline_width >= 0
           /\ cv.o.padding >= 0)
    => /\ cv.canvas.width \in Int /\ cv.canvas.height \in Int
       /\ 10 * cv.canvas.width >= NeededWidth
       /\ 10 * cv.canvas.height >= NeededHeight

\* a canvas whose needed size is no whole number of pixels and above the
\* minimum: only the rounding up makes it large enough
C5_Witness ==
    /\ Sized
    /\ NeededWidth % 10 # 0 /\ NeededWidth >= 15 * cv.o.font_size
    /\ NeededHeight % 10 # 0 /\ NeededHeight >= 12 * cv.o.font_size
    /\ 10 * cv.canvas.width > NeededWidth
    /\ 10 * cv.canvas.width < NeededWidth + 10

(* C6: for every text metrics and style, the allocated canvas is at least
   1.5 x point size wide and at least 1.2 x point size high. *)
C6_MinimumCanvas ==
    Sized => /\ 10 * cv.canvas.width >= 15 * cv.o.font_size
             /\ 10 * cv.canvas.height >= 12 * cv.o.font_size

(* C7: the ink bounding box placed at the computed origin, grown by the
   stroke's half width, lies inside [0, canvas width] x [0, canvas height]. *)
C7_InkInsideCanvas ==
    Sized =>
        LET half   == 5 * cv.o.outline_width
            left   == cv.canvas.x_pos + cv.e.x_bearing - half
            right  == cv.canvas.x_pos + cv.e.x_bearing + cv.e.width + half
            top    == cv.canvas.y_pos + cv.e.y_bearing - half
            bottom == cv.canvas.y_pos + cv.e.y_bearing + cv.e.height + half
        IN  /\ 0 <= left /\ right <= 10 * cv.canvas.width
            /\ 0 <= top /\ bottom <= 10 * cv.canvas.height

----------------------------------------------------------------------------
(* Properties of the two main loops *)

\* a blank line: empty, or white space only
IsBlankLine(line) == \A i \in 1..Len(line) : IsSpace(line[i])

NonBlankPositions == { i \in 1..Len(file) : ~IsBlankLine(file[i]) }

AttemptPositions == { attempts[i].pos : i \in 1..Len(attempts) }

DryRun == prog = "txt2png" /\ opt.dry_run

\* the run went through its whole input file and every render succeeded
CleanRun ==
    /\ pc = "done" /\ exitCode = 0 /\ ~DryRun
    /\ \A i \in 1..Len(attempts) : attempts[i].ok

(* C1: in both batch loops, a non-dry run over a file with k non-blank
   lines (blank: empty or white space only) in which every render succeeds
   ends with exactly k render operations and exactly k output files, one
   per non-blank line and none for a blank line. *)
C1_OnePerNonBlankLine ==
    CleanRun => /\ Len(attempts) = Cardinality(NonBlankPositions)
                /\ Cardinality(files) = Cardinality(NonBlankPositions)
                /\ AttemptPositions = NonBlankPositions

\* the output paths of the commands a dry run printed, in order
RECURSIVE PrintedPaths(_)
PrintedPaths(o) ==
    IF o = <<>> THEN <<>>
    ELSE IF Head(o).kind = "cmd"
         THEN <<Head(o).cmd.out_path>> \o PrintedPaths(Tail(o))
         ELSE PrintedPaths(Tail(o))

(* C2: within a run the line counter used for file names is strictly
   increasing across rendered lines, and no two rendered lines are given
   the same output file name, in both batch loops, for any start index and
   any mix of blank and non-blank lines. *)
C2_NamesUnique ==
    /\ \A i, j \in 1..Len(attempts) :
          i < j => /\ attempts[i].number < attempts[j].number
                   /\ attempts[i].name # attempts[j].name
    /\ LET paths == PrintedPaths(out)
       IN  \A i, j \in 1..Len(paths) : i < j => paths[i] # paths[j]

\* lines rendered on both sides of a blank line, from a negative start
\* index up to a number that is not negative
C2_Witness ==
    /\ Len(attempts) >= 2
    /\ \E i \in 1..Len(file) : IsBlankLine(file[i]) /\ i < Len(file)
    /\ attempts[1].number < 0
    /\ attempts[Len(attempts)].number >= 0

(* C3: in txt2png, when the render command of a line returns nonzero the
   batch stops at that line: no later line is read or rendered, the process
   exits with the render-failure code, and the files written for earlier
   lines are still there. *)
C3_AbortOnFirstFailure ==
    prog = "txt2png" =>
        \A i \in 1..Len(attempts) :
            ~attempts[i].ok =>
                /\ i = Len(attempts)
                /\ attempts[i].pos = Len(file)
                /\ pc = "done"
                /\ exitCode = ReturnCodes("txt2png").render
                /\ made = i - 1
                /\ \A j \in 1..(i - 1) : attempts[j].name \in files

\* a command failed after an earlier line's file was written and before
\* the longest file's last line
C3_Witness ==
    /\ prog = "txt2png"
    /\ Len(attempts) = 2 /\ attempts[1].ok /\ ~attempts[2].ok
    /\ Len(file) < MaxLines
    /\ files # {}

\* the value of a --font-index on the command line that is no index of the
\* catalog
FontIndexOutOfRange ==
    \E i \in 1..(Len(argv) - 1) :
        /\ argv[i] = "--font-index"
        /\ stoi(Chars(argv[i + 1])).ok
        /\ stoi(Chars(argv[i + 1])).val \notin 1..Len(fonts)

(* C4: in txt2png, for every requested --font-index outside
   [1, catalog.size()], 0 and negative values included, the run fails with
   the font-index-out-of-range error, renders no line and writes no file. *)
C4_BadFontIndexFails ==
    (prog = "txt2png" /\ FontIndexOutOfRange) =>
        /\ pc \notin {"open", "loop"}
        /\ attempts = <<>> /\ files = {} /\ PrintedPaths(out) = <<>>
        /\ (pc = "done" => exitCode # 0)

\* a colour value that is not 6 hex digits (6 or 8 for the background)
\* after an optional leading '#'
Malformed(value, isBackground) ==
    LET c == IF value # <<>> /\ Head(value) = "#" THEN Tail(value) ELSE value
    IN  \/ Len(c) \notin (IF isBackground THEN {6, 8} ELSE {6})
        \/ \E i \in 1..Len(c) : ~IsHex(c[i])

ColourFlags == {"--color", "--outline-color", "--text-color", "--bg-color"}

MalformedColourGiven ==
    \E i \in 1..(Len(argv) - 1) :
        /\ argv[i] \in ColourFlags
        /\ (prog = "text2png" => i >= 3)
        /\ Malformed(Chars(argv[i + 1]), argv[i] = "--bg-color")

(* C8: for every malformed colour option value, parsing fails with an
   invalid-colour error; the run never goes on to render with a default,
   previous or undefined colour in its place. *)
C8_MalformedColourFails ==
    MalformedColourGiven =>
        /\ pc \notin {"detect", "fonts", "open", "loop"}
        /\ attempts = <<>> /\ PrintedPaths(out) = <<>>
        /\ (pc = "done" => exitCode # 0)

(* C9: a rendering backend that is unavailable, or a requested font that
   cannot be resolved, aborts the run before the first line's render step:
   no render step and no output file write happens after or without a
   successful backend check and font resolution. *)
C9_SetupBeforeLines ==
    /\ \A i \in 1..Len(attempts) :
          attempts[i].backendOK /\ attempts[i].fontOK
    /\ (fontEnv \in {"noft", "nofont", "noface"} /\ pc = "done")
          => exitCode # 0

FailureKinds == {"usage", "input", "backend", "fontindex", "render"}

(* C10: the process exits 0 only on success, and each of the five failure
   kinds (usage error, missing or unreadable input file, missing rendering
   backend, invalid font index, per-line render failure) gives a nonzero
   exit code that no other failure kind gives. *)
C10_ExitCodes ==
    pc = "done" =>
        /\ (exitCode = 0 => failKind = "none")
        /\ failKind \in FailureKinds =>
              /\ exitCode # 0
              /\ \A k \in (DOMAIN ReturnCodes(prog) \cap FailureKinds) \ {failKind} :
                    exitCode # ReturnCodes(prog)[k]

----------------------------------------------------------------------------
(* Usage errors *)

\* the options each program knows, and those of them that take a value
ValueFlags(p) ==
    IF p = "txt2png"
    THEN {"--input", "--prefix", "--start-index", "--font", "--font-index",
          "--size", "--color", "--outline-color", "--outline",
          "--outline-method", "--offset-directions"}
    ELSE {"--font-name", "--font-size", "--text-color", "--outline-color",
          "--bg-color", "--outline-width", "--padding"}

PlainFlags(p) ==
    IF p = "txt2png" THEN {"--help", "-h", "--list-fonts", "--dry-run"}
    ELSE {"-v", "--verbose"}

\* an unknown option, an option without its value or an unknown outline
\* method among the options args[i], args[i+1], ...
RECURSIVE BadOptionFrom(_, _, _)
BadOptionFrom(p, args, i) ==
    IF i > Len(args) THEN FALSE
    ELSE IF args[i] \in ValueFlags(p)
         THEN \/ i + 1 > Len(args)
              \/ args[i] = "--outline-method"
                    /\ args[i + 1] \notin {"stroke", "offset"}
              \/ BadOptionFrom(p, args, i + 2)
         ELSE IF args[i] \in PlainFlags(p)
              THEN BadOptionFrom(p, args, i + 1)
              ELSE TRUE

Mentions(flag) == \E i \in 1..Len(argv) : argv[i] = flag

\* the command line names no input although it asks for work on one
MissingInput ==
    IF prog = "txt2png"
    THEN ~Mentions("--input") /\ ~Mentions("--list-fonts")
         /\ ~Mentions("--help") /\ ~Mentions("-h")
    ELSE Len(argv) < 2 /\ ~(Len(argv) >= 1 /\ argv[1] = "--list-fonts")

BadArgument ==
    \/ MissingInput
    \/ BadOptionFrom(prog, argv, IF prog = "txt2png" THEN 1 ELSE 3)

(* C11: for every command line with a bad argument (an unknown option, an
   option missing its value, an unknown outline method, or a missing
   required input) the process exits nonzero at once with no partial work:
   the input file is not read, no render step runs, no file is written. *)
C11_UsageErrorStops ==
    BadArgument =>
        /\ pc \in {"start", "done"}
        /\ file = <<>> /\ attempts = <<>> /\ files = {}
        /\ (pc = "done" => exitCode # 0)

----------------------------------------------------------------------------
(* txt2png: the offset-halo command *)

\* every command txt2png has built: the ones handed to std::system and the
\* ones a dry run printed
IssuedCmds ==
    IF prog # "txt2png" THEN {}
    ELSE { attempts[i].cmd : i \in 1..Len(attempts) }
         \cup { out[i].cmd : i \in { j \in 1..Len(out) : out[j].kind = "cmd" } }

OffsetCmds == { c \in IssuedCmds : c.method = "offset" }

OnlyFillLayers(c) ==
    \A i \in 1..Len(c.layers) : c.layers[i].role = "fill"

(* C12: an offset-halo command built with directions <= 0 or
   outline_thickness <= 0 composites the fill-coloured text only: no
   outline-coloured layer, base or shifted, is part of it *)
C12_DegenerateFillOnly ==
    \A c \in OffsetCmds :
        (opt.offset_directions <= 0 \/ opt.outline_thickness <= 0)
            => OnlyFillLayers(c)

\* the layers of a command for N directions and thickness r are the base,
\* N shifted copies within r of the centre, and one unshifted fill layer
HaloOrder(c, N, r) ==
    /\ Len(c.layers) = N + 2
    /\ c.layers[1] = Label(c.stroke, "base", 0, 0)
    /\ \A k \in 0..(N - 1) :
          LET l == c.layers[k + 2]
          IN  /\ l.role = "shifted" /\ l.colour = c.stroke
              /\ l.dx = OffsetDx(r, k, N) /\ l.dy = OffsetDy(r, k, N)
              /\ Abs(l.dx) <= r /\ Abs(l.dy) <= r
    /\ c.layers[N + 2] = Label(c.fill, "fill", 0, 0)
    /\ \A i \in 1..(N + 1) : c.layers[i].role # "fill"

(* C13: for N = directions >= 1 and outline thickness r > 0 an offset-halo
   command composites the outline-coloured base, then exactly N shifted
   outline copies for k = 0..N-1, each within r of the centre in both axes,
   then exactly one unshifted fill-coloured layer, which is last *)
C13_HaloLayerOrder ==
    \A c \in OffsetCmds :
        (opt.offset_directions >= 1 /\ opt.outline_thickness > 0)
            => HaloOrder(c, opt.offset_directions, opt.outline_thickness)

\* a four-direction halo of thickness 2 was handed to the backend
C13_Witness ==
    \E i \in 1..Len(attempts) :
        /\ prog = "txt2png"
        /\ attempts[i].cmd.method = "offset"
        /\ opt.offset_directions = 4 /\ opt.outline_thickness = 2
        /\ Len(attempts[i].cmd.layers) = 6
        /\ attempts[i].cmd.layers[3].dy = 2


----------------------------------------------------------------------------
(* The font catalog *)

NoRepeats(q) ==
    \A i, j \in 1..Len(q) : i # j => q[i] # q[j]

\* the names of the numbered font list a run printed, in order
ListedFonts ==
    LET idx == { i \in 1..Len(out) : out[i].kind = "font" }
    IN  [k \in 1..Cardinality(idx) |->
            out[CHOOSE i \in idx :
                    Cardinality({ j \in idx : j < i }) = k - 1].name]

(* C14: the font catalog a run builds from the backend's family names, and
   the numbered list it displays, hold each family name at most once *)
C14_CatalogUnique ==
    /\ NoRepeats(fonts)
    /\ NoRepeats(ListedFonts)


----------------------------------------------------------------------------
(* Numbering, dry runs and failed renders in the two loops *)

\* the number of non-empty lines of the input before position p
NonEmptyBefore(p) ==
    Cardinality({ j \in 1..(p - 1) : file[j] # <<>> })

(* C15: in txt2png the number in a rendered line's file name is start_index
   plus the line's 0-based position in the input file, blank lines
   included; in text2png it is 1 plus the count of non-empty lines before
   the line, skipped empty lines not counted *)
C15_NumberingDiffers ==
    \A i \in 1..Len(attempts) :
        LET a == attempts[i]
        IN  IF prog = "txt2png"
            THEN /\ a.number = opt.start_index + (a.pos - 1)
                 /\ a.name = OutputName(opt.prefix, a.number)
            ELSE /\ a.number = 1 + NonEmptyBefore(a.pos)
                 /\ a.name = OutputName(opt.output_prefix, a.number)

\* txt2png rendered a line that follows a blank line
C15_Witness ==
    /\ prog = "txt2png"
    /\ \E i \in 1..Len(attempts) :
          /\ attempts[i].pos > 1
          /\ \E j \in 1..(attempts[i].pos - 1) : IsBlankLine(file[j])
          /\ attempts[i].number # opt.start_index + NonEmptyBefore(attempts[i].pos)

IsCmd(e) == e.kind = "cmd"

NotBlank(line) == ~IsBlankLine(line)

\* the commands a run printed, and the non-blank lines it read, in order
PrintedCmds == SelectSeq(out, IsCmd)

NonBlankLines == SelectSeq(file, NotBlank)

(* C16: a txt2png run with --dry-run executes no render command, prints
   exactly one command per non-blank line in input order, keeps the count
   of written files at 0, and ends with exit code 0 once it has read its
   input *)
C16_DryRunOnlyPrints ==
    DryRun =>
        /\ attempts = <<>> /\ made = 0 /\ files = {}
        /\ Len(PrintedCmds) = Len(NonBlankLines)
        /\ \A k \in 1..Len(PrintedCmds) :
              PrintedCmds[k].cmd.label = escape_for_label(trim(NonBlankLines[k]))
        /\ (pc = "done" /\ Len(file) > 0 => exitCode = 0)

\* a finished dry run over two text lines and a blank one
C16_Witness ==
    /\ DryRun /\ pc = "done" /\ exitCode = 0
    /\ Len(PrintedCmds) = 2
    /\ \E j \in 1..Len(file) : IsBlankLine(file[j])

IsCreated(e) == e.kind = "created"

CreatedReports == SelectSeq(out, IsCreated)

(* C17: text2png goes on after a failed render: every non-empty line read
   is attempted whether or not an earlier render failed, the file name
   counter advances by one per non-empty line whatever the outcome, each
   attempt is reported as 'Created', and the process exits 0 *)
C17_ContinuesAfterFailure ==
    prog = "text2png" =>
        /\ AttemptPositions = { p \in 1..Len(file) : file[p] # <<>> }
        /\ \A i \in 1..Len(attempts) : attempts[i].number = i
        /\ Len(CreatedReports) = Len(attempts)
        /\ \A i \in 1..Len(attempts) :
              CreatedReports[i].name = attempts[i].name
        /\ (pc = "loop" => lineno = Len(attempts) + 1)
        /\ (pc = "done" /\ Len(attempts) > 0 => exitCode = 0)

\* a render failed, a later line was attempted, and the process exited 0
C17_Witness ==
    /\ prog = "text2png" /\ pc = "done" /\ exitCode = 0
    /\ \E i, j \in 1..Len(attempts) :
          i < j /\ ~attempts[i].ok /\ attempts[j].ok

============================================================================
